---- MODULE Spec2Model ----
(***************************************************************************)
(* A model of the document scanning and risk-classification engine of the  *)
(* legacy-data-manager backend (app/services/file_scanner_with_json.py).   *)
(*                                                                         *)
(* Conventions                                                             *)
(*  - Risk weights and scores are counted in hundredths: 0.4 is 40, the    *)
(*    cap 1.0 is 100.  For every sum the scorer can form from its weight   *)
(*    tables the IEEE-754 result falls in the same risk bucket as the      *)
(*    exact sum, so the hundredths are faithful to the float arithmetic.   *)
(*  - Times are whole days.  A datetime is the day number it falls on; an  *)
(*    optional value is a sequence: << >> is Python's None, <<d>> is the   *)
(*    datetime d.                                                          *)
(*  - A text is a sequence of atoms (Alphabet below): each atom is a       *)
(*    maximal piece of the string the tables can tell apart.               *)
(***************************************************************************)
EXTENDS Integers, Sequences, FiniteSets, TLC

VARIABLES
    \* ---- the clock ----
    clock,          \* datetime.now(), as a day number; the module is imported on day 0
    \* ---- risk scorer under test (pure functions) ----
    file_data,      \* [createdTime, lastAccessedTime]: the scorer's metadata argument
    findings,       \* the scorer's findings argument: the set of its category keys
    age_factor,     \* the scorer's local age_factor: << >> before the call
    access_factor,  \* the scorer's local access_factor: << >> before the call
    risk_score,     \* << >> before the call, <<score>> after
    risk_label,     \* "None" before the call, the label after
    \* ---- classifier under test (pure function) ----
    text,           \* scan_text's argument
    scanned,        \* << >> before the call, <<result>> after
    \* ---- text extractor under test ----
    stream,         \* extract_text_from_file's stream: what each library makes of it
    file_type,      \* extract_text_from_file's format tag
    extracted,      \* << >> before the call, <<outcome>> after
    \* ---- one call of scan_files ----
    pc,             \* where the call is: idle, loop, fetch, done, raised, cancelled
    source,         \* the source argument
    total,          \* len(files) / len(all_files): the length of the listing
    idx,            \* how many entries of the listing the loop has taken
    file,           \* the entry whose content is being fetched (<< >> when none)
    name,           \* the loop's local variable name (Unbound before its first assignment)
    results,        \* the results dict
    sensitive_file_ids, \* the set sensitive_file_ids
    error,          \* the exception scan_files raised to its caller ("none" if none)
    scan_started,   \* history: datetime.now() when scan_files was called (<< >> before)
    attempted,      \* history: for each entry the loop has finished with, the
                    \* drive file it is about and where the loop put it
    \* ---- scan_cache_service: the module-level caches ----
    utcnow,             \* datetime.utcnow(), in minutes
    directory_cache,    \* _directory_cache
    user_drive_cache,   \* _user_drive_cache
    global_cache,       \* _global_cache
    cache_response,     \* what the last call of a ScanCacheService method returned
    last_update,        \* history: for each target, the time of its last update_cache
    invalidated,        \* history: the directories invalidated since their last update_cache
    \* ---- the drive and cache endpoints ----
    api_pc,             \* for each user, where the user's list_files request is
    api_response,       \* the answer to the last request that was answered
    reassignments,      \* history: how many set_file_department requests were made
    \* ---- the Slack scan command ----
    slack_pc,           \* for each user, where the user's scan command is
    scan_task,          \* for each user, the state of the command's scan_task
    slack_answer        \* for each user, the answer to the user's last scan command

scorerVars == <<file_data, findings, age_factor, access_factor, risk_score, risk_label>>
textVars == <<text, scanned>>
extractVars == <<stream, file_type, extracted>>
scanVars == <<pc, source, total, idx, file, name, results, sensitive_file_ids,
             error, scan_started, attempted>>

cacheVars == <<utcnow, directory_cache, user_drive_cache, global_cache>>
cacheHistory == <<cache_response, last_update, invalidated>>
apiVars == <<api_pc, api_response, reassignments>>
slackVars == <<slack_pc, scan_task, slack_answer>>
serviceVars == <<cacheVars, cacheHistory, apiVars, slackVars>>

vars == <<clock, scorerVars, textVars, extractVars, scanVars, serviceVars>>

----------------------------------------------------------------------------
(* Bounds *)

\* Largest day number datetime.now() takes (days since the module was imported).
MaxClock == 1

\* Longest listing scan_files works through.
MaxFiles == 2

\* Length of the listing in the cancellation scenario.
PartialTotal == 5

\* Longest text handed to scan_text, in atoms.
MaxLen == 3

\* The latest time the cache scenarios reach, in minutes.
MaxNow == 61

\* How many set_file_department requests are made.
MaxReassign == 2

----------------------------------------------------------------------------
(* Python values *)

None == << >>
Some(x) == <<x>>

Min(a, b) == IF a <= b THEN a ELSE b

----------------------------------------------------------------------------
(* RISK SCORING SYSTEM CONFIGURATION *)

\* The closed set of categories, in the key order of sensitive_keywords.
CategoryOrder == <<"pii", "financial", "legal", "confidential">>
Categories == {CategoryOrder[i] : i \in 1..Len(CategoryOrder)}

\* Category labels that are in no table.
UnknownCategories == {"other", "misc"}

CONTENT_RISK_WEIGHTS ==
    [c \in Categories |->
        CASE c = "confidential" -> 40
          [] c = "pii"          -> 30
          [] c = "financial"    -> 20
          [] c = "legal"        -> 10]

AGE_RISK_FACTORS == [high |-> 30, medium |-> 20, low |-> 10]

ACCESS_RISK_FACTORS == [high |-> 30, medium |-> 20, low |-> 10]

\* CONTENT_RISK_WEIGHTS.get(category, 0.05)
DefaultContentWeight == 5

ContentWeight(category) ==
    IF category \in DOMAIN CONTENT_RISK_WEIGHTS
    THEN CONTENT_RISK_WEIGHTS[category]
    ELSE DefaultContentWeight

\* The final cap, min(base_score, 1.0).
ScoreCap == 100

\* Thresholds of get_risk_level_label.
HighThreshold == 70
MediumThreshold == 40

\* Days in the scorer's year (".days / 365").
DaysPerYear == 365

----------------------------------------------------------------------------
(* RISK CALCULATION FUNCTIONS *)

\* (datetime.now() - d).days / 365 >= n, for whole n: the quotient of an
\* integer and 365 is at least n exactly when the integer is at least 365 n.
YearsAtLeast(days, n) == days >= n * DaysPerYear

\* get_age_risk_factor(file_created_date) evaluated when datetime.now() = nowDay.
\* The except branch is not modelled: subtracting two naive datetimes, which
\* is what scan_files passes, cannot raise.
\* A faulty variant: "age_years > 1" in place of "age_years >= 1".
AgeFactorBadTiers(file_created_date, nowDay) ==
    IF file_created_date = None
    THEN AGE_RISK_FACTORS.medium
    ELSE LET days == nowDay - file_created_date[1]
         IN  IF YearsAtLeast(days, 3) THEN AGE_RISK_FACTORS.high
             ELSE IF days > DaysPerYear THEN AGE_RISK_FACTORS.medium
             ELSE AGE_RISK_FACTORS.low

get_age_risk_factor(file_created_date, nowDay) ==
    IF file_created_date = None
    THEN AGE_RISK_FACTORS.medium
    ELSE LET days == nowDay - file_created_date[1]
         IN  IF YearsAtLeast(days, 3) THEN AGE_RISK_FACTORS.high
             ELSE IF YearsAtLeast(days, 1) THEN AGE_RISK_FACTORS.medium
             ELSE AGE_RISK_FACTORS.low

\* get_access_risk_factor(last_accessed_date) evaluated when datetime.now() = nowDay.
get_access_risk_factor(last_accessed_date, nowDay) ==
    IF last_accessed_date = None
    THEN ACCESS_RISK_FACTORS.high
    ELSE LET days == nowDay - last_accessed_date[1]
         IN  IF YearsAtLeast(days, 3) THEN ACCESS_RISK_FACTORS.high
             ELSE IF YearsAtLeast(days, 1) THEN ACCESS_RISK_FACTORS.medium
             ELSE ACCESS_RISK_FACTORS.low

\* The content part of calculate_weighted_risk_score: the loop over
\* findings.keys().  keys is the set of keys of the findings dict.
\* A faulty variant: "base_score = weight" in place of "base_score += weight".
ContentScoreOverwrite(keys) ==
    IF keys = {} THEN 0 ELSE ContentWeight(CHOOSE k \in keys : TRUE)

RECURSIVE ContentScore(_)
ContentScore(keys) ==
    IF keys = {} THEN 0
    ELSE LET c == CHOOSE k \in keys : TRUE
         IN  ContentWeight(c) + ContentScore(keys \ {c})

\* calculate_weighted_risk_score(file_data, findings), datetime.now() = nowDay.
\* A faulty variant: the final min(base_score, 1.0) is left out.
ScoreUncapped(fd, keys, nowDay) ==
    ContentScore(keys)
        + get_age_risk_factor(fd.createdTime, nowDay)
        + get_access_risk_factor(fd.lastAccessedTime, nowDay)

calculate_weighted_risk_score(fd, keys, nowDay) ==
    Min(ContentScore(keys)
            + get_age_risk_factor(fd.createdTime, nowDay)
            + get_access_risk_factor(fd.lastAccessedTime, nowDay),
        ScoreCap)

\* get_risk_level_label(risk_score)
\* A faulty variant: ">" in place of ">=".
LabelExclusiveBounds(score) ==
    IF score > HighThreshold THEN "high"
    ELSE IF score > MediumThreshold THEN "medium"
    ELSE "low"

get_risk_level_label(score) ==
    IF score >= HighThreshold THEN "high"
    ELSE IF score >= MediumThreshold THEN "medium"
    ELSE "low"

----------------------------------------------------------------------------
(* CONTENT CLASSIFIER *)

sensitive_keywords ==
    [pii |-> <<"dob", "email", "phone", "address", "ssn", "personal", "pii",
               "hipaa", "gdpr", "personally identifiable", "customer data",
               "personnel", "employee", "patient", "healthcare">>,
     financial |-> <<"credit", "bank", "amount", "revenue", "budget", "roi",
                     "cost", "financial", "invoice", "payment", "expense",
                     "profit", "pricing", "salary", "investment", "tax">>,
     legal |-> <<"license", "contract", "agreement", "legal", "compliance",
                 "regulatory", "counsel", "policy", "policies", "terms",
                 "regulation", "gdpr", "ccpa", "hipaa", "certification",
                 "audit", "liability">>,
     confidential |-> <<"confidential", "internal use", "do not distribute",
                        "sensitive", "security", "restricted", "proprietary",
                        "classified", "private", "secret", "nda",
                        "non-disclosure", "intellectual property",
                        "trade secret", "internal only">>]

\* The keys of the patterns dict, in insertion order ("contract_number" is
\* written twice in the literal and keeps its first position).
PatternLabels ==
    <<"credit_card", "expiry_date", "ssn", "email", "phone", "drivers_license",
      "address_like", "contract_number", "legal_case", "regulation_ref",
      "classification_level", "nda_reference">>

pattern_categories ==
    [credit_card |-> "financial", expiry_date |-> "financial",
     ssn |-> "pii", email |-> "pii", phone |-> "pii",
     drivers_license |-> "pii", address_like |-> "pii",
     contract_number |-> "legal", legal_case |-> "legal",
     regulation_ref |-> "legal", confidential_header |-> "confidential",
     classification_level |-> "confidential", nda_reference |-> "confidential"]

\* pattern_categories.get(label, "pii")
PatternCategory(label) ==
    IF label \in DOMAIN pattern_categories THEN pattern_categories[label] ELSE "pii"

\* The atoms texts are made of.  "un" and "UN" are word characters that
\* join the atom next to them into a longer word; " " separates words;
\* "x@y.io" is an e-mail address.
Alphabet ==
    {"confidential", "CONFIDENTIAL", "Confidential", "un", "UN", " ",
     "gdpr", "invoice", "x@y.io"}

\* str.lower() on an atom.
Lower(a) ==
    CASE a \in {"CONFIDENTIAL", "Confidential"} -> "confidential"
      [] a = "UN" -> "un"
      [] OTHER -> a

\* text.lower()
LowerText(t) == [i \in 1..Len(t) |-> Lower(t[i])]

\* Whether the atom begins and ends with a word character (\w).
IsWord(a) == a # " "

\* re.search(r'\b' + re.escape(keyword.lower()) + r'\b', text_lower): the
\* keyword is an atom of the lowered text with no word character next to it.
KeywordFound(keyword, text_lower) ==
    \E i \in 1..Len(text_lower) :
        /\ text_lower[i] = Lower(keyword)
        /\ (i = 1 \/ ~IsWord(text_lower[i - 1]))
        /\ (i = Len(text_lower) \/ ~IsWord(text_lower[i + 1]))

\* The atoms in which each regular expression of patterns finds a match.
\* The expressions are matched on the text as written, not lowered, and
\* classification_level has no \b: it matches CONFIDENTIAL wherever it is.
PatternAtoms(label) ==
    CASE label = "classification_level" -> {"CONFIDENTIAL"}
      [] label = "email" -> {"x@y.io"}
      [] OTHER -> {}

\* re.search(pattern, text)
PatternFound(label, t) == \E i \in 1..Len(t) : t[i] \in PatternAtoms(label)

\* findings[cat] at the end of the two loops of scan_text: the keywords of
\* cat that were found, in table order, then the labels of the patterns of
\* cat that matched, in the order of patterns.
Evidence(cat, t) ==
    SelectSeq(sensitive_keywords[cat],
              LAMBDA keyword : KeywordFound(keyword, LowerText(t)))
    \o SelectSeq(PatternLabels,
                 LAMBDA label : PatternFound(label, t) /\ PatternCategory(label) = cat)

\* The dict findings of scan_text at the end of its two loops: it was
\* created with every category as a key.
FindingsAfterLoops(t) == [cat \in Categories |-> Evidence(cat, t)]

\* scan_text(text): {k: v for k, v in findings.items() if v}
\* A faulty variant: "return findings", without the filter.
ScanTextUnfiltered(t) == FindingsAfterLoops(t)

scan_text(t) ==
    LET all == FindingsAfterLoops(t)
    IN  [cat \in {c \in DOMAIN all : all[c] # << >>} |-> all[cat]]

----------------------------------------------------------------------------
(* TEXT EXTRACTION *)

\* An exception in place of a value.
Raises == <<"raise">>

\* The library calls extract_text_from_file hands the stream to, one for
\* each branch: Document, Presentation, load_workbook, extract_text_to_fp,
\* Image.open with pytesseract.image_to_string, and stream.read().decode().
Handlers ==
    {"Document", "Presentation", "load_workbook", "extract_text_to_fp",
     "image_to_string", "decode"}

\* The branch the if/elif chain takes for a format tag ("none": no branch).
HandlerOf(tag) ==
    CASE tag = "docx" -> "Document"
      [] tag = "pptx" -> "Presentation"
      [] tag \in {"xlsx", "xls"} -> "load_workbook"
      [] tag = "pdf" -> "extract_text_to_fp"
      [] tag \in {"jpg", "jpeg", "png", "webp"} -> "image_to_string"
      [] tag = "txt" -> "decode"
      [] OTHER -> "none"

\* extract_text_from_file(stream, file_type).  st[h] is what the library
\* call h makes of the stream: a text, or Raises.  The result is a text
\* ("" is << >>), or Raises when the call raises.
\* A faulty variant: the body without its try/except.
ExtractUnguarded(st, tag) ==
    IF HandlerOf(tag) = "none" THEN << >> ELSE st[HandlerOf(tag)]

extract_text_from_file(st, tag) ==
    IF HandlerOf(tag) = "none" THEN << >>
    ELSE IF st[HandlerOf(tag)] = Raises THEN << >>
    ELSE st[HandlerOf(tag)]

----------------------------------------------------------------------------
(* FILE TABLES *)

file_type_map ==
    <<[category |-> "documents",
       extensions |-> {"docx", "txt", "doc", "rtf", "odt", "pages", "md", "gdoc"}],
      [category |-> "spreadsheets",
       extensions |-> {"xlsx", "xls", "csv", "ods", "numbers", "gsheet"}],
      [category |-> "presentations",
       extensions |-> {"pptx", "ppt", "odp", "key", "gslides"}],
      [category |-> "pdfs",
       extensions |-> {"pdf"}],
      [category |-> "images",
       extensions |-> {"jpg", "jpeg", "png", "webp", "gif", "bmp", "tiff", "heic", "gdraw"}],
      [category |-> "videos",
       extensions |-> {"mp4", "mov", "avi", "wmv", "flv", "mkv", "webm"}],
      [category |-> "audio",
       extensions |-> {"mp3", "wav", "ogg", "m4a", "wma"}],
      [category |-> "archives",
       extensions |-> {"zip", "rar", "7z", "tar", "gz"}],
      [category |-> "code",
       extensions |-> {"py", "js", "java", "cpp", "h", "cs", "php", "rb", "swift", "gs"}]>>

mime_type_map ==
    ("application/vnd.google-apps.document" :> "gdoc")
    @@ ("application/vnd.google-apps.spreadsheet" :> "gsheet")
    @@ ("application/vnd.google-apps.presentation" :> "gslides")
    @@ ("application/vnd.google-apps.drawing" :> "gdraw")
    @@ ("application/vnd.google-apps.form" :> "gform")
    @@ ("application/vnd.google-apps.script" :> "gs")
    @@ ("application/vnd.google-apps.folder" :> "folder")
    @@ ("application/pdf" :> "pdf")
    @@ ("application/msword" :> "doc")
    @@ ("application/vnd.openxmlformats-officedocument.wordprocessingml.document" :> "docx")
    @@ ("application/vnd.ms-excel" :> "xls")
    @@ ("application/vnd.openxmlformats-officedocument.spreadsheetml.sheet" :> "xlsx")
    @@ ("application/vnd.ms-powerpoint" :> "ppt")
    @@ ("application/vnd.openxmlformats-officedocument.presentationml.presentation" :> "pptx")
    @@ ("application/vnd.oasis.opendocument.text" :> "odt")
    @@ ("application/vnd.oasis.opendocument.spreadsheet" :> "ods")
    @@ ("application/vnd.oasis.opendocument.presentation" :> "odp")
    @@ ("application/x-iwork-pages-sffpages" :> "pages")
    @@ ("application/x-iwork-numbers-sffnumbers" :> "numbers")
    @@ ("application/x-iwork-keynote-sffkey" :> "key")
    @@ ("text/markdown" :> "md")
    @@ ("text/plain" :> "txt")
    @@ ("text/rtf" :> "rtf")
    @@ ("image/jpeg" :> "jpg")
    @@ ("image/png" :> "png")
    @@ ("image/gif" :> "gif")
    @@ ("image/webp" :> "webp")
    @@ ("image/bmp" :> "bmp")
    @@ ("image/tiff" :> "tiff")
    @@ ("image/heic" :> "heic")
    @@ ("video/mp4" :> "mp4")
    @@ ("video/quicktime" :> "mov")
    @@ ("video/x-msvideo" :> "avi")
    @@ ("video/x-ms-wmv" :> "wmv")
    @@ ("video/webm" :> "webm")
    @@ ("video/x-matroska" :> "mkv")
    @@ ("audio/mpeg" :> "mp3")
    @@ ("audio/wav" :> "wav")
    @@ ("audio/ogg" :> "ogg")
    @@ ("audio/mp4" :> "m4a")
    @@ ("audio/x-ms-wma" :> "wma")
    @@ ("application/zip" :> "zip")
    @@ ("application/x-rar-compressed" :> "rar")
    @@ ("application/x-7z-compressed" :> "7z")
    @@ ("application/x-tar" :> "tar")
    @@ ("application/gzip" :> "gz")
    @@ ("text/javascript" :> "js")
    @@ ("text/x-python" :> "py")
    @@ ("text/x-java" :> "java")
    @@ ("text/x-c" :> "c")
    @@ ("text/x-cpp" :> "cpp")
    @@ ("text/x-csharp" :> "cs")
    @@ ("text/x-php" :> "php")
    @@ ("text/x-ruby" :> "rb")
    @@ ("text/x-swift" :> "swift")

\* The categories whose content is fetched and scanned.
TextBearing == {"documents", "spreadsheets", "presentations", "pdfs"}

FileTypes == {file_type_map[i].category : i \in 1..Len(file_type_map)} \cup {"others"}

AgeGroups == {"moreThanThreeYears", "oneToThreeYears", "lessThanOneYear"}

RiskLevels == {"high", "medium", "low"}

\* now = datetime.now(), evaluated once, when the module is imported.
now == 0

\* classify_by_age(modified_time)
classify_by_age(modified_time) ==
    LET age_days == now - modified_time
    IN  IF age_days <= 365 THEN "lessThanOneYear"
        ELSE IF age_days <= 1095 THEN "oneToThreeYears"
        ELSE "moreThanThreeYears"

\* str.lower() on an owner's e-mail address.
LowerEmail(e) ==
    CASE e = "Madhu@getclario.ai" -> "madhu@getclario.ai"
      [] OTHER -> e

\* The e-mail addresses get_department_from_owner knows.
DepartmentOf ==
    ("yousuf@getclario.ai" :> "Sales & Marketing")
    @@ ("vanessa@getclario.ai" :> "Operations")
    @@ ("madhu@getclario.ai" :> "R&D")

\* get_department_from_owner(owners); owners is the list of the owners'
\* e-mail addresses.
get_department_from_owner(owners) ==
    LET known == {i \in 1..Len(owners) : LowerEmail(owners[i]) \in DOMAIN DepartmentOf}
    IN  IF known = {} THEN "Others"
        ELSE DepartmentOf[LowerEmail(owners[CHOOSE i \in known : \A j \in known : i <= j])]

\* A timestamp string of the listing: well-formed, for the day it names, or not.
IsoString(day) == [wellFormed |-> TRUE, day |-> day]
Malformed == [wellFormed |-> FALSE, day |-> 0]

\* The ext of an entry: mime_type_map.get(mime_type, None), else the part of
\* the name after its last dot, lowered, else 'others'.  nameExt is that
\* part of the name ("" when the name has no dot).
ExtOf(mime_type, nameExt) ==
    IF mime_type \in DOMAIN mime_type_map THEN mime_type_map[mime_type]
    ELSE IF nameExt # "" THEN nameExt
    ELSE "others"

\* The category of an ext: the first category of file_type_map that lists it.
\* A faulty variant: the default is 'documents' instead of 'others'.
FileTypeDefaultDocuments(ext) ==
    LET hits == {i \in 1..Len(file_type_map) : ext \in file_type_map[i].extensions}
    IN  IF hits = {} THEN "documents"
        ELSE file_type_map[CHOOSE i \in hits : \A j \in hits : i <= j].category

FileTypeOf(ext) ==
    LET hits == {i \in 1..Len(file_type_map) : ext \in file_type_map[i].extensions}
    IN  IF hits = {} THEN "others"
        ELSE file_type_map[CHOOSE i \in hits : \A j \in hits : i <= j].category

----------------------------------------------------------------------------
(* scan_files: the results dict *)

\* The value name has before the loop assigns it: reading it raises
\* UnboundLocalError.
Unbound == "<unbound>"

InitialResults ==
    [files |-> << >>,
     stats |-> [total_documents |-> 0,
                total_sensitive |-> 0,
                total_duplicates |-> 0,
                by_file_type |-> [k \in FileTypes |-> 0],
                by_sensitivity |-> [k \in Categories |-> 0],
                by_age_group |-> [k \in AgeGroups |-> 0],
                by_risk_level |-> [k \in RiskLevels |-> 0],
                by_department |-> << >>],
     scan_complete |-> FALSE,
     processed_files |-> 0,
     total_files |-> 0,
     failed_files |-> << >>]

\* d[k] += 1 on a dict in which k may be missing (it then starts at 0).
\* A faulty variant: "d[k] = 0" is executed for a key that is present too.
IncrementedFromZero(d, k) ==
    [x \in DOMAIN d \cup {k} |-> IF x = k THEN 1 ELSE d[x]]

Incremented(d, k) ==
    IF k \in DOMAIN d THEN [d EXCEPT ![k] = @ + 1] ELSE d @@ (k :> 1)

\* Whether the metadata of an entry can be read up to the point where its
\* record is appended: the first key whose read raises, or "none".
\* file['id'], file['name'], file['mimeType'], then
\* datetime.fromisoformat(file['modifiedTime'].rstrip("Z")).
FirstFailure(f) ==
    IF "id" \notin DOMAIN f THEN "id"
    ELSE IF "name" \notin DOMAIN f THEN "name"
    ELSE IF "mimeType" \notin DOMAIN f THEN "mimeType"
    ELSE IF "modifiedTime" \notin DOMAIN f \/ ~f.modifiedTime.wellFormed THEN "modifiedTime"
    ELSE "none"

\* The value of the local variable name when the except clause of the loop
\* body reads it: the name of this entry if the failure came after
\* "name = file['name']", the value left by an earlier iteration if before.
NameAtFailure(f, previous) ==
    IF FirstFailure(f) \in {"id", "name"} THEN previous ELSE f.name

\* file_dict
FileDict(f) ==
    [id |-> f.id,
     name |-> f.name,
     nameExt |-> f.nameExt,     \* part of name: what follows its last dot
     mimeType |-> f.mimeType,
     modifiedTime |-> f.modifiedTime,
     createdTime |-> IF "createdTime" \in DOMAIN f THEN f.createdTime ELSE f.modifiedTime,
     fileType |-> FileTypeOf(ExtOf(f.mimeType, f.nameExt)),
     ageGroup |-> classify_by_age(f.modifiedTime.day),
     sensitiveCategories |-> << >>,
     riskLevel |-> None,
     riskLevelLabel |-> "None",
     department |-> get_department_from_owner(f.owners)]

\* results after the record of f is appended and counted (the statements
\* from results["files"].append(file_dict) to the by_department update).
WithRecord(res, f) ==
    LET d == FileDict(f)
    IN  [res EXCEPT
            !.files = Append(@, d),
            !.stats.by_file_type[d.fileType] = @ + 1,
            !.stats.by_age_group[d.ageGroup] = @ + 1,
            !.stats.by_department = Incremented(@, d.department)]

\* The categories of a scan_text result, in the order of its keys.
CategoriesOf(found) == SelectSeq(CategoryOrder, LAMBDA c : c \in DOMAIN found)

\* next((i for i, f in enumerate(results["files"]) if f["id"] == file_id), None)
FileIndexFirst(files, file_id) ==
    CHOOSE i \in 1..Len(files) :
        /\ files[i].id = file_id
        /\ \A j \in 1..(i - 1) : files[j].id # file_id

\* by_sensitivity after "by_sensitivity[category] += 1" for every category found.
CountedSensitivity(by_sensitivity, found) ==
    [c \in DOMAIN by_sensitivity |->
        IF c \in DOMAIN found THEN by_sensitivity[c] + 1 ELSE by_sensitivity[c]]

\* results after the findings of file_id are applied (the body of
\* "if findings:"); seen is sensitive_file_ids before the statement.
\* A faulty variant: the record is scored and counted in by_risk_level here,
\* in the classification pass.
WithFindingsCountsRisk(res, file_id, found, seen) ==
    LET i == FileIndexFirst(res.files, file_id)
        fd == [createdTime |-> Some(res.files[i].createdTime.day),
               lastAccessedTime |-> None]
        label == get_risk_level_label(
                     calculate_weighted_risk_score(fd, DOMAIN found, clock))
    IN  [res EXCEPT
            !.files[i].sensitiveCategories = CategoriesOf(found),
            !.stats.by_sensitivity = CountedSensitivity(@, found),
            !.stats.by_risk_level[label] = @ + 1,
            !.stats.total_sensitive = IF file_id \in seen THEN @ ELSE @ + 1]

WithFindings(res, file_id, found, seen) ==
    LET i == FileIndexFirst(res.files, file_id)
    IN  [res EXCEPT
            !.files[i].sensitiveCategories = CategoriesOf(found),
            !.stats.by_sensitivity = CountedSensitivity(@, found),
            !.stats.total_sensitive = IF file_id \in seen THEN @ ELSE @ + 1]

\* Whether the scoring pass raises on a record: only
\* datetime.fromisoformat(file_obj["createdTime"].rstrip("Z")) can, and it is
\* evaluated for the records with sensitive categories only.
ScoringRaises(file_obj) ==
    /\ file_obj.sensitiveCategories # << >>
    /\ ~file_obj.createdTime.wellFormed

SeqToSet(q) == {q[i] : i \in 1..Len(q)}

\* One record after the scoring pass, when datetime.now() = nowDay.
ScoredAlways(file_obj, nowDay) ==
    LET fd == [createdTime |-> Some(file_obj.createdTime.day), lastAccessedTime |-> None]
        score == calculate_weighted_risk_score(fd, SeqToSet(file_obj.sensitiveCategories), nowDay)
    IN  [file_obj EXCEPT !.riskLevel = Some(score),
                         !.riskLevelLabel = get_risk_level_label(score)]

\* A faulty variant: lastAccessedTime is taken from the file's modifiedTime.
ScoredWithAccessTime(file_obj, nowDay) ==
    IF file_obj.sensitiveCategories = << >> THEN file_obj
    ELSE LET fd == [createdTime |-> Some(file_obj.createdTime.day),
                    lastAccessedTime |-> Some(file_obj.modifiedTime.day)]
             score == calculate_weighted_risk_score(
                          fd, SeqToSet(file_obj.sensitiveCategories), nowDay)
         IN  [file_obj EXCEPT !.riskLevel = Some(score),
                              !.riskLevelLabel = get_risk_level_label(score)]

Scored(file_obj, nowDay) ==
    IF file_obj.sensitiveCategories = << >> THEN file_obj
    ELSE LET fd == [createdTime |-> Some(file_obj.createdTime.day),
                    lastAccessedTime |-> None]
             score == calculate_weighted_risk_score(
                          fd, SeqToSet(file_obj.sensitiveCategories), nowDay)
         IN  [file_obj EXCEPT !.riskLevel = Some(score),
                              !.riskLevelLabel = get_risk_level_label(score)]

\* max(sensitiveCategories, key=CONTENT_RISK_WEIGHTS.get(cat, 0)): the first
\* category of the list among those of the highest weight.
\* A faulty variant: min in place of max.
PrimaryCategoryLowest(cats) ==
    LET W(c) == IF c \in DOMAIN CONTENT_RISK_WEIGHTS THEN CONTENT_RISK_WEIGHTS[c] ELSE 0
        i == CHOOSE k \in 1..Len(cats) :
                /\ \A j \in 1..Len(cats) : W(cats[j]) >= W(cats[k])
                /\ \A j \in 1..(k - 1) : W(cats[j]) > W(cats[k])
    IN  cats[i]

PrimaryCategory(cats) ==
    LET W(c) == IF c \in DOMAIN CONTENT_RISK_WEIGHTS THEN CONTENT_RISK_WEIGHTS[c] ELSE 0
        i == CHOOSE k \in 1..Len(cats) :
                /\ \A j \in 1..Len(cats) : W(cats[j]) <= W(cats[k])
                /\ \A j \in 1..(k - 1) : W(cats[j]) < W(cats[k])
    IN  cats[i]

\* One record after the last loop: sensitivityReason is set on the records
\* with sensitive categories and on no other.
WithReason(file_obj) ==
    IF file_obj.sensitiveCategories = << >> THEN file_obj
    ELSE file_obj @@ [sensitivityReason |-> PrimaryCategory(file_obj.sensitiveCategories)]

\* by_risk_level after the scoring pass: starting from counts, one
\* "by_risk_level[risk_level_label] += 1" for each record of files (already
\* scored) that has sensitive categories.
RECURSIVE RiskCounted(_, _)
RiskCounted(counts, files) ==
    IF files = << >> THEN counts
    ELSE LET f == Head(files)
             after == IF f.sensitiveCategories = << >> THEN counts
                      ELSE [counts EXCEPT ![f.riskLevelLabel] = @ + 1]
         IN  RiskCounted(after, Tail(files))

\* results when the scoring pass raises: scan_complete is set, the records
\* before the first one that cannot be scored are scored and counted, and
\* the rest is as the loop left it.
ScoredUpToRaise(res, nowDay) ==
    LET k == CHOOSE i \in 1..Len(res.files) :
                /\ ScoringRaises(res.files[i])
                /\ \A j \in 1..(i - 1) : ~ScoringRaises(res.files[j])
        scored == [i \in 1..Len(res.files) |->
                      IF i < k THEN Scored(res.files[i], nowDay) ELSE res.files[i]]
    IN  [res EXCEPT
            !.scan_complete = TRUE,
            !.files = scored,
            !.stats.by_risk_level = RiskCounted(@, SubSeq(scored, 1, k - 1))]

\* results at the return of the gdrive branch: scan_complete, the scoring
\* pass, the overall statistics and the sensitivityReason pass.
\* A faulty variant: total_sensitive is set to len(results["files"]), like
\* the three statistics assigned before it.
CompletedCountsDocuments(res, seen, nowDay) ==
    LET scored == [i \in 1..Len(res.files) |-> Scored(res.files[i], nowDay)]
    IN  [res EXCEPT
            !.scan_complete = TRUE,
            !.files = [i \in 1..Len(scored) |-> WithReason(scored[i])],
            !.stats.by_risk_level = RiskCounted(@, scored),
            !.stats.total_documents = Len(scored),
            !.total_files = Len(scored),
            !.processed_files = Len(scored),
            !.stats.total_sensitive = Len(scored)]

Completed(res, seen, nowDay) ==
    LET scored == [i \in 1..Len(res.files) |-> Scored(res.files[i], nowDay)]
    IN  [res EXCEPT
            !.scan_complete = TRUE,
            !.files = [i \in 1..Len(scored) |-> WithReason(scored[i])],
            !.stats.by_risk_level = RiskCounted(@, scored),
            !.stats.total_documents = Len(scored),
            !.total_files = Len(scored),
            !.processed_files = Len(scored),
            !.stats.total_sensitive = Cardinality(seen)]

----------------------------------------------------------------------------
(* ScanCacheService: the caches and the methods on them *)

\* ScanCacheService.cache_ttl, in minutes
cache_ttl == 60

Users == {1, 2}
Directories == {"d1"}
Targets == {"drive"} \cup Directories
\* target_id = None in invalidate_cache: all the caller's caches
AllTargets == "<all>"

\* The user_id a ScanCacheService is built with: None is the legacy service.
Legacy == None

EmptyEntry == [last_scan |-> None, data |-> None]

EmptyGlobalCache == [drive |-> EmptyEntry, directories |-> << >>]

\* The three module-level dictionaries as one value.
Caches ==
    [directory |-> directory_cache,
     user_drive |-> user_drive_cache,
     global |-> global_cache]

EmptyCaches ==
    [directory |-> << >>, user_drive |-> << >>, global |-> EmptyGlobalCache]

\* ScanCacheService(user_id): a user's drive entry is created when absent.
ServiceInit(c, user_id) ==
    IF user_id # None /\ user_id[1] \notin DOMAIN c.user_drive
    THEN [c EXCEPT !.user_drive = (user_id[1] :> EmptyEntry) @@ @]
    ELSE c

\* The entry get_cached_result looks at, << >> when there is none.
CacheEntryOf(c, user_id, target_id) ==
    IF target_id = "drive"
    THEN IF user_id = None THEN Some(c.global.drive)
         ELSE IF user_id[1] \in DOMAIN c.user_drive
              THEN Some(c.user_drive[user_id[1]])
              ELSE None
    ELSE IF target_id \in DOMAIN c.directory
         THEN Some(c.directory[target_id])
         ELSE IF user_id = None /\ target_id \in DOMAIN c.global.directories
              THEN Some(c.global.directories[target_id])
              ELSE None

\* get_cached_result without the expiry check (a deliberately wrong variant).
GetCachedResultNoExpiry(c, user_id, target_id, t) ==
    LET cache_entry == CacheEntryOf(c, user_id, target_id)
    IN  IF cache_entry = None THEN None
        ELSE IF cache_entry[1].last_scan = None THEN None
        ELSE cache_entry[1].data

\* get_cached_result(target_id) at time t: the data, or None.
get_cached_result(c, user_id, target_id, t) ==
    LET cache_entry == CacheEntryOf(c, user_id, target_id)
    IN  IF cache_entry = None THEN None
        ELSE IF cache_entry[1].last_scan = None THEN None
        ELSE IF t - cache_entry[1].last_scan[1] > cache_ttl THEN None
        ELSE cache_entry[1].data

\* update_cache(target_id, data) at time t.
update_cache(c, user_id, target_id, data, t) ==
    LET entry == [last_scan |-> Some(t), data |-> Some(data)]
    IN  IF target_id = "drive"
        THEN IF user_id = None
             THEN [c EXCEPT !.global.drive = entry]
             ELSE [c EXCEPT !.user_drive = (user_id[1] :> entry) @@ @]
        ELSE LET before == IF target_id \in DOMAIN c.directory
                           THEN c.directory[target_id].scanned_by_users
                           ELSE << >>
                 scanned_by_users ==
                     IF user_id # None /\ user_id[1] # 0
                        /\ user_id[1] \notin SeqToSet(before)
                     THEN Append(before, user_id[1])
                     ELSE before
                 dir_entry == [scanned_by_users |-> scanned_by_users,
                               last_scan |-> Some(t), data |-> Some(data)]
                 shared == [c EXCEPT !.directory = (target_id :> dir_entry) @@ @]
             IN  IF user_id = None
                 THEN [shared EXCEPT !.global.directories =
                                         (target_id :> entry) @@ @]
                 ELSE shared

\* dict.pop(key, None)
Pop(d, key) == [k \in DOMAIN d \ {key} |-> d[k]]

\* invalidate_cache(target_id)
invalidate_cache(c, user_id, target_id) ==
    IF target_id = AllTargets
    THEN LET own == IF user_id = None
                    THEN [c EXCEPT !.global = EmptyGlobalCache]
                    ELSE IF user_id[1] \in DOMAIN c.user_drive
                         THEN [c EXCEPT !.user_drive[user_id[1]] = EmptyEntry]
                         ELSE c
         IN  [own EXCEPT !.directory = << >>]
    ELSE IF target_id = "drive"
    THEN IF user_id = None
         THEN [c EXCEPT !.global.drive = EmptyEntry]
         ELSE IF user_id[1] \in DOMAIN c.user_drive
              THEN [c EXCEPT !.user_drive[user_id[1]] = EmptyEntry]
              ELSE c
    ELSE LET popped == [c EXCEPT !.directory = Pop(@, target_id)]
         IN  IF user_id = None
             THEN [popped EXCEPT !.global.directories = Pop(@, target_id)]
             ELSE popped

\* get_cached_directories()
get_cached_directories(c) == DOMAIN c.directory

\* The caches after a call has returned.
SetCaches(c) ==
    /\ directory_cache' = c.directory
    /\ user_drive_cache' = c.user_drive
    /\ global_cache' = c.global

----------------------------------------------------------------------------
(* Idle components *)

ScorerIdle ==
    /\ file_data = [createdTime |-> None, lastAccessedTime |-> None]
    /\ findings = {}
    /\ age_factor = None
    /\ access_factor = None
    /\ risk_score = None
    /\ risk_label = "None"

ClassifierIdle ==
    /\ text = << >>
    /\ scanned = None

ExtractorIdle ==
    /\ stream = << >>
    /\ file_type = ""
    /\ extracted = None

ScanIdle ==
    /\ pc = "idle"
    /\ source = "gdrive"
    /\ total = 0
    /\ idx = 0
    /\ file = None
    /\ name = Unbound
    /\ results = InitialResults
    /\ sensitive_file_ids = {}
    /\ error = "none"
    /\ scan_started = None
    /\ attempted = << >>

\* What a call that returns nothing leaves in cache_response.
NoCall == [op |-> "none"]

NoResponse == [endpoint |-> "none"]

CachesIdle ==
    /\ utcnow = 0
    /\ directory_cache = EmptyCaches.directory
    /\ user_drive_cache = EmptyCaches.user_drive
    /\ global_cache = EmptyCaches.global
    /\ cache_response = NoCall
    /\ last_update = [t \in Targets |-> None]
    /\ invalidated = {}

EndpointsIdle ==
    /\ api_pc = [u \in Users |-> "idle"]
    /\ api_response = NoResponse
    /\ reassignments = 0

SlackIdle ==
    /\ slack_pc = [u \in Users |-> "idle"]
    /\ scan_task = [u \in Users |-> "none"]
    /\ slack_answer = [u \in Users |-> "none"]

ServicesIdle == CachesIdle /\ EndpointsIdle /\ SlackIdle

----------------------------------------------------------------------------
(* The classifier on its own: SpecText *)

RECURSIVE SeqsUpTo(_, _)
SeqsUpTo(S, n) ==
    IF n = 0 THEN {<< >>}
    ELSE LET shorter == SeqsUpTo(S, n - 1)
         IN  shorter \cup {Append(t, a) : t \in shorter, a \in S}

InitText ==
    /\ text \in SeqsUpTo(Alphabet, MaxLen)
    /\ scanned = None
    /\ clock = 0
    /\ ScorerIdle
    /\ ExtractorIdle
    /\ ScanIdle
    /\ ServicesIdle

\* scanned = scan_text(text)
CallScanText ==
    /\ scanned = None
    /\ scanned' = Some(scan_text(text))
    /\ UNCHANGED <<clock, scorerVars, text, extractVars, serviceVars, scanVars>>

NextText == CallScanText

SpecText == InitText /\ [][NextText]_vars

----------------------------------------------------------------------------
(* The text extractor on its own: SpecExtract *)

\* Format tags the extractor is tried on: every tag with a branch, tags
\* without one, a tag in upper case and the empty tag.
ExtractTags ==
    {"docx", "pptx", "xlsx", "xls", "pdf", "jpg", "jpeg", "png", "webp", "txt",
     "doc", "csv", "xyz123", "PDF", ""}

\* What a library call makes of a stream: it raises, or returns a text.
StreamOutcomes == {Raises, << >>, <<"invoice">>, <<"gdpr">>}

InitExtract ==
    /\ stream \in [Handlers -> StreamOutcomes]
    /\ file_type \in ExtractTags
    /\ extracted = None
    /\ clock = 0
    /\ ScorerIdle
    /\ ClassifierIdle
    /\ ScanIdle
    /\ ServicesIdle

\* extracted = extract_text_from_file(stream, file_type)
CallExtract ==
    /\ extracted = None
    /\ extracted' = Some(extract_text_from_file(stream, file_type))
    /\ UNCHANGED <<clock, scorerVars, textVars, stream, file_type, scanVars, serviceVars>>

NextExtract == CallExtract

SpecExtract == InitExtract /\ [][NextExtract]_vars

----------------------------------------------------------------------------
(* The scorer on its own: SpecScore *)

\* Creation and access days the scorer is tried on: with clock in
\* 0..MaxClock they give ages of 364, 365, 366, 1094, 1095 and 1096 days,
\* an old file, a file of clock and a file dated in the future.
ScoreDays == {5, 0, -364, -365, -1094, -1095, -2000}

OptionalDays == {None} \cup {Some(d) : d \in ScoreDays}

InitScore ==
    /\ file_data \in [createdTime : OptionalDays, lastAccessedTime : OptionalDays]
    /\ findings \in SUBSET (Categories \cup UnknownCategories)
    /\ clock \in 0..MaxClock
    /\ age_factor = None
    /\ access_factor = None
    /\ risk_score = None
    /\ risk_label = "None"
    /\ ClassifierIdle
    /\ ExtractorIdle
    /\ ScanIdle
    /\ ServicesIdle

\* risk_score = calculate_weighted_risk_score(file_data, findings)
CallScore ==
    /\ risk_score = None
    /\ age_factor' = Some(get_age_risk_factor(file_data.createdTime, clock))
    /\ access_factor' = Some(get_access_risk_factor(file_data.lastAccessedTime, clock))
    /\ risk_score' = Some(calculate_weighted_risk_score(file_data, findings, clock))
    /\ UNCHANGED <<clock, file_data, findings, risk_label, textVars, extractVars, serviceVars, scanVars>>

\* risk_level_label = get_risk_level_label(risk_score)
CallLabel ==
    /\ risk_score # None
    /\ risk_label = "None"
    /\ risk_label' = get_risk_level_label(risk_score[1])
    /\ UNCHANGED <<clock, file_data, findings, age_factor, access_factor,
                   risk_score, textVars, extractVars, serviceVars, scanVars>>

NextScore == CallScore \/ CallLabel

SpecScore == InitScore /\ [][NextScore]_vars

----------------------------------------------------------------------------
(* scan_files: Spec *)

\* The files of the drive: id, name and owners.
DriveFiles ==
    {[id |-> "f1", name |-> "n1", owners |-> <<"Madhu@getclario.ai">>],
     [id |-> "f2", name |-> "n2", owners |-> << >>]}

\* The files of the drive in the cancellation scenario, in listing order.
PartialListing ==
    <<[id |-> "p1", name |-> "m1", owners |-> << >>],
      [id |-> "p2", name |-> "m2", owners |-> << >>],
      [id |-> "p3", name |-> "m3", owners |-> << >>],
      [id |-> "p4", name |-> "m4", owners |-> << >>],
      [id |-> "p5", name |-> "m5", owners |-> << >>],
      [id |-> "p6", name |-> "m6", owners |-> << >>]>>

PartialFiles == {PartialListing[i] : i \in 1..Len(PartialListing)}

\* What the listing says about the format of an entry: a PDF (text-bearing)
\* and a file of unknown MIME type named with the extension xyz123.
Formats ==
    {[mimeType |-> "application/pdf", nameExt |-> ""],
     [mimeType |-> "application/octet-stream", nameExt |-> "xyz123"]}

\* The timestamps of an entry: a recent file, a file modified 365 days
\* before the module was imported, an old file, and a recent file whose
\* createdTime is not a timestamp.
Timestamps ==
    {[modifiedTime |-> IsoString(-10)],
     [modifiedTime |-> IsoString(-365)],
     [modifiedTime |-> IsoString(-2000)],
     [modifiedTime |-> IsoString(-10), createdTime |-> Malformed]}

\* What get_file_content answers for an entry: it raises, or returns a
\* text: the empty text, a text with no finding, a financial text, a text
\* that is both pii and legal and a text that is financial and confidential.
Contents ==
    {Raises, << >>, <<"un", "confidential">>, <<"invoice">>, <<"gdpr">>,
     <<"invoice", " ", "Confidential">>}

\* The history entry of a listing entry: the drive file it is about and the
\* list the loop put it in ("files" or "failed_files").
Outcome(f, where) ==
    [file |-> CHOOSE d \in DriveFiles \cup PartialFiles :
                 \A k \in DOMAIN d \cap DOMAIN f : d[k] = f[k],
     where |-> where]

\* Well-formed entries of the listing.
GoodEntries ==
    {d @@ fmt @@ ts @@ [content |-> c] :
        d \in DriveFiles, fmt \in Formats, ts \in Timestamps, c \in Contents}

\* Entries with a defect in their metadata: a key is missing, or
\* modifiedTime is not a timestamp.
Without(f, key) == [k \in DOMAIN f \ {key} |-> f[k]]

BadEntries ==
    {Without(d @@ [mimeType |-> "application/pdf", nameExt |-> "",
                   modifiedTime |-> IsoString(-10), content |-> << >>], key) :
        d \in DriveFiles, key \in {"id", "name", "mimeType"}}
    \cup {d @@ [mimeType |-> "application/pdf", nameExt |-> "",
                modifiedTime |-> Malformed, content |-> << >>] : d \in DriveFiles}

FilePool == GoodEntries \cup BadEntries

\* The listing states the format of a drive file the same way each time it
\* names the file: an entry agrees on mimeType and on the extension of its
\* name with the records of the same id.
SameFileSameFormat(f, files) ==
    \A i \in 1..Len(files) :
        ("id" \in DOMAIN f /\ "mimeType" \in DOMAIN f /\ files[i].id = f.id)
            => (files[i].mimeType = f.mimeType /\ files[i].nameExt = f.nameExt)

\* Files of a local directory: a path, its extension and what its content
\* extracts to.
LocalPool ==
    {[path |-> p, content |-> c] : p \in {"n1", "n2"}, c \in {<< >>, <<"invoice">>}}

Init ==
    /\ clock = 0
    /\ ScorerIdle
    /\ ClassifierIdle
    /\ ExtractorIdle
    /\ ScanIdle
    /\ ServicesIdle

\* Time passes between the import of the module and the call of scan_files.
Tick ==
    /\ pc = "idle"
    /\ clock < MaxClock
    /\ clock' = clock + 1
    /\ UNCHANGED <<scorerVars, textVars, extractVars, serviceVars, scanVars>>

\* scan_files(source='gdrive', ...) up to the start of the loop:
\* is_authenticated, then list_directory, which returns n entries.
StartGdrive(n) ==
    /\ pc = "idle"
    /\ scan_started' = Some(clock)
    /\ source' = "gdrive"
    /\ total' = n
    /\ results' = [results EXCEPT !.total_files = n]
    /\ pc' = "loop"
    /\ UNCHANGED <<clock, scorerVars, textVars, extractVars, serviceVars, idx, file, name, sensitive_file_ids,
                   error, attempted>>

\* The same, when is_authenticated answers False (ValueError) or
\* list_directory raises: scan_files raises.
StartGdriveFails ==
    /\ pc = "idle"
    /\ scan_started' = Some(clock)
    /\ source' = "gdrive"
    /\ pc' = "raised"
    /\ error' \in {"ValueError: Not authenticated", "list_directory failed"}
    /\ UNCHANGED <<clock, scorerVars, textVars, extractVars, serviceVars, total, idx, file, name, results,
                   sensitive_file_ids, attempted>>

\* scan_files(source='local', ...) up to the start of the loop: os.walk
\* finds n files.
StartLocal(n) ==
    /\ pc = "idle"
    /\ scan_started' = Some(clock)
    /\ source' = "local"
    /\ total' = n
    /\ results' = [results EXCEPT !.total_files = n]
    /\ pc' = "loop"
    /\ UNCHANGED <<clock, scorerVars, textVars, extractVars, serviceVars, idx, file, name, sensitive_file_ids,
                   error, attempted>>

\* One iteration of the gdrive loop on the entry f, up to its first await
\* or to its end.
ProcessFile(pool) ==
    /\ pc = "loop"
    /\ source = "gdrive"
    /\ idx < total
    /\ \E f \in pool :
        /\ SameFileSameFormat(f, results.files)
        /\ IF FirstFailure(f) # "none"
           THEN \* except Exception: results["failed_files"].append(name)
                IF NameAtFailure(f, name) = Unbound
                THEN \* UnboundLocalError in the handler: caught by the outer
                     \* "except Exception", which raises it again
                     /\ pc' = "raised"
                     /\ error' = "UnboundLocalError"
                     /\ UNCHANGED <<idx, file, name, results, attempted>>
                ELSE /\ results' = [results EXCEPT
                           !.failed_files = Append(@, NameAtFailure(f, name))]
                     /\ name' = NameAtFailure(f, name)
                     /\ idx' = idx + 1
                     /\ attempted' = Append(attempted, Outcome(f, "failed_files"))
                     /\ UNCHANGED <<pc, file, error>>
           ELSE /\ name' = f.name
                /\ IF FileDict(f).fileType \in TextBearing
                   THEN \* content = await drive_service.get_file_content(file_id)
                        /\ results' = WithRecord(results, f)
                        /\ file' = Some(f)
                        /\ pc' = "fetch"
                        /\ UNCHANGED <<idx, attempted>>
                   ELSE /\ results' = [WithRecord(results, f) EXCEPT !.processed_files = @ + 1]
                        /\ idx' = idx + 1
                        /\ attempted' = Append(attempted, Outcome(f, "files"))
                        /\ UNCHANGED <<pc, file>>
                /\ UNCHANGED error
    /\ UNCHANGED <<clock, scorerVars, textVars, extractVars, serviceVars, scan_started, source, total, sensitive_file_ids>>

\* get_file_content returns or raises, and the iteration runs to its end.
ContentFetched ==
    /\ pc = "fetch"
    /\ LET f == file[1]
           found == scan_text(f.content)
       IN  IF f.content # Raises /\ f.content # << >> /\ DOMAIN found # {}
           THEN /\ results' = [WithFindings(results, f.id, found, sensitive_file_ids)
                                  EXCEPT !.processed_files = @ + 1]
                /\ sensitive_file_ids' = sensitive_file_ids \cup {f.id}
           ELSE \* the inner except logs the error; empty content and empty
                \* findings change nothing
                /\ results' = [results EXCEPT !.processed_files = @ + 1]
                /\ UNCHANGED sensitive_file_ids
    /\ file' = None
    /\ idx' = idx + 1
    /\ pc' = "loop"
    /\ attempted' = Append(attempted, Outcome(file[1], "files"))
    /\ UNCHANGED <<clock, scorerVars, textVars, extractVars, serviceVars, scan_started, source, total, name, error>>

\* The task running scan_files is cancelled while it awaits
\* get_file_content: CancelledError is not an Exception, no except clause
\* of scan_files catches it and the call returns nothing.
Cancel ==
    /\ pc = "fetch"
    /\ pc' = "cancelled"
    /\ error' = "CancelledError"
    /\ UNCHANGED <<clock, scorerVars, textVars, extractVars, serviceVars, scan_started, source, total, idx, file, name,
                   results, sensitive_file_ids, attempted>>

\* The statements after the gdrive loop, to the return.
FinishScan ==
    /\ pc = "loop"
    /\ source = "gdrive"
    /\ idx = total
    /\ IF \E i \in 1..Len(results.files) : ScoringRaises(results.files[i])
       THEN \* ValueError in the scoring pass: "except Exception: raise"
            /\ pc' = "raised"
            /\ error' = "ValueError: Invalid isoformat string"
            /\ results' = ScoredUpToRaise(results, clock)
       ELSE /\ pc' = "done"
            /\ results' = Completed(results, sensitive_file_ids, clock)
            /\ UNCHANGED error
    /\ UNCHANGED <<clock, scorerVars, textVars, extractVars, serviceVars, scan_started, source, total, idx, file, name,
                   sensitive_file_ids, attempted>>

\* One iteration of the local loop: a file whose extracted content is empty
\* is skipped; for any other, results[age_group] raises KeyError (results
\* has no such key) and the path goes to failed_files.
ProcessLocalFile ==
    /\ pc = "loop"
    /\ source = "local"
    /\ idx < total
    /\ \E f \in LocalPool :
        /\ results' = IF f.content = << >> THEN results
                      ELSE [results EXCEPT !.failed_files = Append(@, f.path)]
    /\ idx' = idx + 1
    /\ UNCHANGED <<clock, scorerVars, textVars, extractVars, serviceVars, scan_started, pc, source, total, file, name,
                   sensitive_file_ids, error, attempted>>

\* The local branch returns results as they are.
FinishLocal ==
    /\ pc = "loop"
    /\ source = "local"
    /\ idx = total
    /\ pc' = "done"
    /\ UNCHANGED <<clock, scorerVars, textVars, extractVars, serviceVars, scan_started, source, total, idx, file, name,
                   results, sensitive_file_ids, error, attempted>>

\* What scan_files returned to its caller: << >> while it runs and when it
\* raised or was cancelled.
ReturnedReport == IF pc = "done" THEN Some(results) ELSE None

Next ==
    \/ Tick
    \/ \E n \in 0..MaxFiles : StartGdrive(n)
    \/ StartGdriveFails
    \/ \E n \in 0..MaxFiles : StartLocal(n)
    \/ ProcessFile(FilePool)
    \/ ContentFetched
    \/ Cancel
    \/ FinishScan
    \/ ProcessLocalFile
    \/ FinishLocal

Spec == Init /\ [][Next]_vars

----------------------------------------------------------------------------
(* scan_files cancelled part-way through a listing: SpecPartial *)

\* The entries the i-th position of the listing can hold: well-formed PDFs,
\* recent or old, whose content is empty or financial.
PartialPool(i) ==
    {PartialListing[i]
        @@ [mimeType |-> "application/pdf", nameExt |-> "",
            modifiedTime |-> IsoString(m), content |-> c] :
        m \in {-10, -2000}, c \in {<< >>, <<"invoice">>}}

NextPartial ==
    \/ StartGdrive(PartialTotal)
    \/ ProcessFile(PartialPool(idx + 1))
    \/ ContentFetched
    \/ Cancel
    \/ FinishScan

SpecPartial == Init /\ [][NextPartial]_vars

----------------------------------------------------------------------------
(* ScanCacheService on its own: SpecCache *)

\* The entry the listing has for a drive file that is a recent PDF with no
\* text in it.
ListingEntry(file_id) ==
    (CHOOSE d \in DriveFiles : d.id = file_id)
    @@ [mimeType |-> "application/pdf", nameExt |-> "",
        modifiedTime |-> IsoString(-10), content |-> << >>]

\* results after the loop of scan_files has appended the records of a listing.
RECURSIVE WithRecords(_, _)
WithRecords(res, listing) ==
    IF listing = << >> THEN res
    ELSE WithRecords(WithRecord(res, Head(listing)), Tail(listing))

\* The report scan_files returns for a listing.
ScanReportOf(listing) == Completed(WithRecords(InitialResults, listing), {}, now)

\* What is scanned for a target: directory d1 holds both drive files.
DirectoryListing == <<ListingEntry("f1"), ListingEntry("f2")>>

\* The services of the scenario: the legacy one and the one of user 1.
Instances == {Legacy, Some(1)}

\* The data update_cache is called with: a result that names the scan it
\* comes from, the target scanned and the time of the scan.
CacheData(target_id, t) == [target |-> target_id, scanned_at |-> t]

\* Time passes: 30 or 31 minutes at a time.
AdvanceSteps == {30, 31}

AdvanceTime(step) ==
    /\ utcnow + step <= MaxNow
    /\ utcnow' = utcnow + step
    /\ UNCHANGED <<clock, scorerVars, textVars, extractVars, scanVars,
                   directory_cache, user_drive_cache, global_cache,
                   cacheHistory, apiVars, slackVars>>

\* ScanCacheService(user_id).update_cache(target_id, data)
CacheUpdate(user_id, target_id) ==
    /\ SetCaches(update_cache(ServiceInit(Caches, user_id), user_id, target_id,
                              CacheData(target_id, utcnow), utcnow))
    /\ cache_response' = NoCall
    /\ last_update' = [last_update EXCEPT ![target_id] = Some(utcnow)]
    /\ invalidated' = invalidated \ {target_id}
    /\ UNCHANGED <<clock, scorerVars, textVars, extractVars, scanVars,
                   utcnow, apiVars, slackVars>>

\* ScanCacheService(user_id).get_cached_result(target_id)
CacheGet(user_id, target_id) ==
    /\ SetCaches(ServiceInit(Caches, user_id))
    /\ cache_response' =
           [op |-> "get", user_id |-> user_id, target_id |-> target_id,
            at |-> utcnow,
            data |-> get_cached_result(ServiceInit(Caches, user_id), user_id,
                                       target_id, utcnow)]
    /\ UNCHANGED <<clock, scorerVars, textVars, extractVars, scanVars,
                   utcnow, last_update, invalidated, apiVars, slackVars>>

\* ScanCacheService(user_id).invalidate_cache(target_id)
CacheInvalidate(user_id, target_id) ==
    /\ SetCaches(invalidate_cache(ServiceInit(Caches, user_id), user_id, target_id))
    /\ cache_response' = NoCall
    /\ invalidated' = IF target_id = AllTargets THEN Directories
                      ELSE invalidated \cup ({target_id} \cap Directories)
    /\ UNCHANGED <<clock, scorerVars, textVars, extractVars, scanVars,
                   utcnow, last_update, apiVars, slackVars>>

InitCache ==
    /\ clock = 0
    /\ ScorerIdle
    /\ ClassifierIdle
    /\ ExtractorIdle
    /\ ScanIdle
    /\ ServicesIdle

NextCache ==
    \/ \E step \in AdvanceSteps : AdvanceTime(step)
    \/ \E user_id \in Instances, target_id \in Targets : CacheUpdate(user_id, target_id)
    \/ \E user_id \in Instances, target_id \in Targets : CacheGet(user_id, target_id)
    \/ \E user_id \in Instances, target_id \in Targets \cup {AllTargets} :
           CacheInvalidate(user_id, target_id)

SpecCache == InitCache /\ [][NextCache]_vars

----------------------------------------------------------------------------
(* The drive and cache endpoints: SpecApi *)

\* What list_directory('root') lists while a request of a user is served:
\* the drive of user 1 holds f1, the drive of user 2 holds f2.
DriveListingOf(user) ==
    IF user = 1 THEN <<ListingEntry("f1")>> ELSE <<ListingEntry("f2")>>

\* The ids of the files of a report, in order.
FileIds(report) == [i \in 1..Len(report.files) |-> report.files[i].id]

\* The file ids and the department ids the requests name; f3 is no file of
\* any drive.
RequestedFiles == {"f1", "f2", "f3"}
DepartmentIds == {"operations", "Others"}

\* drive.py's scan_cache = ScanCacheService(): the service of the drive
\* endpoints is built once, with no user_id.
scan_cache == Legacy

\* cache.py's get_scan_cache_service: a service with the user_id of the
\* authenticated user.
get_scan_cache_service(user) == Some(user)

\* list_files, first half: the cached drive result is answered; when there
\* is none the handler awaits the listing and the scan.
ListFilesStart(user) ==
    /\ api_pc[user] = "idle"
    /\ LET cached_result == get_cached_result(Caches, scan_cache, "drive", utcnow)
       IN  IF cached_result # None
           THEN /\ api_response' = [endpoint |-> "list_files", user |-> user,
                                    status |-> 200,
                                    files |-> FileIds(cached_result[1])]
                /\ UNCHANGED api_pc
           ELSE /\ api_pc' = [api_pc EXCEPT ![user] = "list_files"]
                /\ UNCHANGED api_response
    /\ UNCHANGED <<clock, scorerVars, textVars, extractVars, scanVars,
                   cacheVars, cacheHistory, reassignments, slackVars>>

\* list_files, second half: the scan has returned, its result is cached and
\* answered.
ListFilesFinish(user) ==
    /\ api_pc[user] = "list_files"
    /\ LET scan_results == ScanReportOf(DriveListingOf(user))
       IN  /\ SetCaches(update_cache(Caches, scan_cache, "drive", scan_results, utcnow))
           /\ api_response' = [endpoint |-> "list_files", user |-> user,
                               status |-> 200, files |-> FileIds(scan_results)]
    /\ api_pc' = [api_pc EXCEPT ![user] = "idle"]
    /\ UNCHANGED <<clock, scorerVars, textVars, extractVars, scanVars,
                   utcnow, cacheHistory, reassignments, slackVars>>

\* list_directory_files(folder_id); the handler takes no user.
ListDirectoryFiles(folder_id) ==
    /\ LET cached_result == get_cached_result(Caches, scan_cache, folder_id, utcnow)
           scan_results == ScanReportOf(DirectoryListing)
       IN  IF cached_result # None
           THEN /\ api_response' = [endpoint |-> "list_directory_files",
                                    status |-> 200,
                                    files |-> FileIds(cached_result[1])]
                /\ UNCHANGED <<directory_cache, user_drive_cache, global_cache>>
           ELSE /\ SetCaches(update_cache(Caches, scan_cache, folder_id,
                                          scan_results, utcnow))
                /\ api_response' = [endpoint |-> "list_directory_files",
                                    status |-> 200,
                                    files |-> FileIds(scan_results)]
    /\ UNCHANGED <<clock, scorerVars, textVars, extractVars, scanVars,
                   utcnow, cacheHistory, api_pc, reassignments, slackVars>>

\* debug_cache(target_id) of cache.py
DebugCache(user, target_id) ==
    /\ LET service == get_scan_cache_service(user)
           cache_entry == get_cached_result(ServiceInit(Caches, service), service,
                                            target_id, utcnow)
       IN  /\ SetCaches(ServiceInit(Caches, service))
           /\ api_response' =
                  [endpoint |-> "debug_cache", user |-> user, status |-> 200,
                   target_id |-> target_id,
                   files |-> IF cache_entry = None THEN << >>
                             ELSE FileIds(cache_entry[1])]
    /\ UNCHANGED <<clock, scorerVars, textVars, extractVars, scanVars,
                   utcnow, cacheHistory, api_pc, reassignments, slackVars>>

\* invalidate_cache(target_id) of cache.py
InvalidateEndpoint(user, target_id) ==
    /\ LET service == get_scan_cache_service(user)
       IN  SetCaches(invalidate_cache(ServiceInit(Caches, service), service, target_id))
    /\ api_response' = [endpoint |-> "invalidate_cache", user |-> user,
                        status |-> 200, target_id |-> target_id]
    /\ UNCHANGED <<clock, scorerVars, textVars, extractVars, scanVars,
                   utcnow, cacheHistory, api_pc, reassignments, slackVars>>

\* cached_dirs + ['drive']: the cached directories, then the drive.
SearchedCaches(c) ==
    (IF "d1" \in get_cached_directories(c) THEN <<"d1">> ELSE << >>) \o <<"drive">>

\* Whether a report has a file with the given id.
HasFile(report, file_id) == \E i \in 1..Len(report.files) : report.files[i].id = file_id

\* The cached result set_file_department changes: the first of the searched
\* caches whose result has the file; << >> when there is none.
CacheWithFile(c, file_id, t) ==
    LET searched == SearchedCaches(c)
        hits == {i \in 1..Len(searched) :
                    LET cached_result == get_cached_result(c, scan_cache, searched[i], t)
                    IN  cached_result # None /\ HasFile(cached_result[1], file_id)}
    IN  IF hits = {} THEN None
        ELSE Some(searched[CHOOSE i \in hits : \A j \in hits : i <= j])

\* The cached result after set_file_department has changed the first file
\* with the id: its department is set and the count of the new department
\* is incremented.
Reassigned(report, file_id, department_id) ==
    LET i == CHOOSE k \in 1..Len(report.files) :
                 /\ report.files[k].id = file_id
                 /\ \A j \in 1..(k - 1) : report.files[j].id # file_id
    IN  [report EXCEPT
            !.files[i].department = department_id,
            !.stats.by_department = Incremented(@, department_id)]

\* set_file_department(file_id, department_id). The HTTPException with
\* status 404 is raised inside the try block, and the handler's
\* "except Exception" answers it with status 500.
SetFileDepartment(user, file_id, department_id) ==
    /\ reassignments < MaxReassign
    /\ reassignments' = reassignments + 1
    /\ LET dir_id == CacheWithFile(Caches, file_id, utcnow)
       IN  IF dir_id = None
           THEN /\ api_response' =
                       [endpoint |-> "set_file_department", user |-> user,
                        status |-> 500, raised |-> 404, file_id |-> file_id,
                        department |-> department_id, in_cache |-> FALSE]
                /\ UNCHANGED <<directory_cache, user_drive_cache, global_cache>>
           ELSE LET cached_result ==
                        get_cached_result(Caches, scan_cache, dir_id[1], utcnow)[1]
                IN  /\ SetCaches(update_cache(Caches, scan_cache, dir_id[1],
                             Reassigned(cached_result, file_id, department_id),
                             utcnow))
                    /\ api_response' =
                           [endpoint |-> "set_file_department", user |-> user,
                            status |-> 200, raised |-> 0, file_id |-> file_id,
                            department |-> department_id, in_cache |-> TRUE]
    /\ UNCHANGED <<clock, scorerVars, textVars, extractVars, scanVars,
                   utcnow, cacheHistory, api_pc, slackVars>>

NextApi ==
    \/ \E user \in Users : ListFilesStart(user)
    \/ \E user \in Users : ListFilesFinish(user)
    \/ \E folder_id \in Directories : ListDirectoryFiles(folder_id)
    \/ \E user \in Users, target_id \in Targets : DebugCache(user, target_id)
    \/ \E user \in Users, target_id \in Targets \cup {AllTargets} :
           InvalidateEndpoint(user, target_id)
    \/ \E user \in Users, file_id \in RequestedFiles, department_id \in DepartmentIds :
           SetFileDepartment(user, file_id, department_id)

SpecApi == InitCache /\ [][NextApi]_vars

----------------------------------------------------------------------------
(* The Slack scan command: SpecSlack *)

\* user_chat_service.scan_cache: the cache service of the user's chat service.
ChatScanCache(user) == Some(user)

\* The directory the commands of the scenario name.
ScannedDirectory == "d1"

\* _handle_scan up to the wait: a cached result is answered at once; with
\* none, scan_task is created and awaited for at most 2.5 seconds.
ScanCommand(user) ==
    /\ slack_pc[user] = "idle"
    /\ LET service == ChatScanCache(user)
           cached_result == get_cached_result(ServiceInit(Caches, service), service,
                                              ScannedDirectory, utcnow)
       IN  /\ SetCaches(ServiceInit(Caches, service))
           /\ IF cached_result # None
              THEN /\ slack_answer' = [slack_answer EXCEPT ![user] = "cached"]
                   /\ UNCHANGED <<slack_pc, scan_task>>
              ELSE /\ slack_answer' = [slack_answer EXCEPT ![user] = "none"]
                   /\ scan_task' = [scan_task EXCEPT ![user] = "running"]
                   /\ slack_pc' = [slack_pc EXCEPT ![user] = "waiting"]
    /\ UNCHANGED <<clock, scorerVars, textVars, extractVars, scanVars,
                   utcnow, cacheHistory, apiVars>>

\* The scan returns within the wait: analyze_directory has cached its
\* results, and they are answered.
ScanReturns(user) ==
    /\ slack_pc[user] = "waiting"
    /\ scan_task[user] = "running"
    /\ SetCaches(update_cache(Caches, ChatScanCache(user), ScannedDirectory,
                              ScanReportOf(DirectoryListing), utcnow))
    /\ scan_task' = [scan_task EXCEPT ![user] = "done"]
    /\ slack_answer' = [slack_answer EXCEPT ![user] = "results"]
    /\ slack_pc' = [slack_pc EXCEPT ![user] = "idle"]
    /\ UNCHANGED <<clock, scorerVars, textVars, extractVars, scanVars,
                   utcnow, cacheHistory, apiVars>>

\* analyze_directory raises within the wait: background_scan returns None
\* and the command answers with an error.
ScanRaises(user) ==
    /\ slack_pc[user] = "waiting"
    /\ scan_task[user] = "running"
    /\ scan_task' = [scan_task EXCEPT ![user] = "failed"]
    /\ slack_answer' = [slack_answer EXCEPT ![user] = "error"]
    /\ slack_pc' = [slack_pc EXCEPT ![user] = "idle"]
    /\ UNCHANGED <<clock, scorerVars, textVars, extractVars, scanVars,
                   cacheVars, cacheHistory, apiVars>>

\* The wait times out: asyncio.wait_for cancels scan_task before it raises
\* TimeoutError; the CancelledError raised in background_scan is not an
\* Exception, so the task ends cancelled. The command answers that the
\* directory is being scanned in the background.
WaitTimesOut(user) ==
    /\ slack_pc[user] = "waiting"
    /\ scan_task[user] = "running"
    /\ scan_task' = [scan_task EXCEPT ![user] = "cancelled"]
    /\ slack_answer' = [slack_answer EXCEPT ![user] = "background"]
    /\ slack_pc' = [slack_pc EXCEPT ![user] = "idle"]
    /\ UNCHANGED <<clock, scorerVars, textVars, extractVars, scanVars,
                   cacheVars, cacheHistory, apiVars>>

NextSlack ==
    \/ \E user \in Users : ScanCommand(user)
    \/ \E user \in Users : ScanReturns(user)
    \/ \E user \in Users : ScanRaises(user)
    \/ \E user \in Users : WaitTimesOut(user)
    \/ \E step \in AdvanceSteps : AdvanceTime(step)

SpecSlack == InitCache /\ [][NextSlack]_vars

----------------------------------------------------------------------------
(* Properties of the scorer *)

\* C6: calculate_weighted_risk_score returns min(content + age + access, 1.0),
\* the content weight being 0.4 for confidential, 0.3 for pii, 0.2 for
\* financial, 0.1 for legal and 0.05 for each other label present; the score
\* lies in [0.0, 1.0] and is exactly 1.0 when all four categories are present.
C6_ScoreIsCappedSum ==
    risk_score # None =>
        LET content == (IF "confidential" \in findings THEN 40 ELSE 0)
                     + (IF "pii" \in findings THEN 30 ELSE 0)
                     + (IF "financial" \in findings THEN 20 ELSE 0)
                     + (IF "legal" \in findings THEN 10 ELSE 0)
                     + 5 * Cardinality(findings \
                             {"confidential", "pii", "financial", "legal"})
            sum == content + age_factor[1] + access_factor[1]
        IN  /\ risk_score[1] = (IF sum <= 100 THEN sum ELSE 100)
            /\ risk_score[1] >= 0
            /\ risk_score[1] <= 100
            /\ ({"confidential", "pii", "financial", "legal"} \subseteq findings
                    => risk_score[1] = 100)

\* C6 witness: all four categories with the highest age and access weights
\* (an uncapped 1.6) score exactly 1.0.
C6_Witness ==
    /\ findings = {"confidential", "pii", "financial", "legal"}
    /\ age_factor = Some(30)
    /\ access_factor = Some(30)
    /\ risk_score = Some(100)

C8_LabelLowerBoundsInclusive ==
    risk_label # "None" =>
        /\ risk_score[1] >= 70 => risk_label = "high"
        /\ (risk_score[1] >= 40 /\ risk_score[1] < 70) => risk_label = "medium"
        /\ risk_score[1] < 40 => risk_label = "low"
        /\ ( /\ findings = {"confidential"}
             /\ file_data.createdTime # << >>
             /\ clock - file_data.createdTime[1] < 365
             /\ file_data.lastAccessedTime = << >> )
                => (risk_score[1] = 80 /\ risk_label = "high")

\* C8 witness: a score of exactly 0.7 is labelled high.
C8_Witness ==
    /\ risk_score = Some(70)
    /\ risk_label = "high"

\* C9: with createdTime and lastAccessedTime equal, the score of a category
\* set is at least the score of each of its subsets, and its level is never
\* lower.
C9_ScoreMonotone ==
    risk_label # "None" =>
        LET Rank(l) == CASE l = "low" -> 1 [] l = "medium" -> 2 [] l = "high" -> 3
        IN  \A A \in SUBSET findings :
                LET a == calculate_weighted_risk_score(file_data, A, clock)
                IN  /\ a <= risk_score[1]
                    /\ Rank(get_risk_level_label(a)) <= Rank(risk_label)

\* C9 witness: a scored set with a proper, non-empty subset of strictly
\* smaller score.
C9_Witness ==
    /\ risk_label # "None"
    /\ \E A \in SUBSET findings :
            /\ A # {}
            /\ A # findings
            /\ calculate_weighted_risk_score(file_data, A, clock) < risk_score[1]

----------------------------------------------------------------------------
(* Properties of the classifier *)

\* C10: scan_text reports the category confidential with the evidence token
\* "confidential" for every text that holds "confidential" as a standalone
\* word, in any letter case; a text that holds it only inside a longer word,
\* in any letter case, does not produce the category confidential.
C10_WholeWordOnly ==
    scanned # None =>
        LET result == scanned[1]
            IsIt(i) == text[i] \in {"confidential", "CONFIDENTIAL", "Confidential"}
            Alone(i) == /\ (i = 1 \/ text[i - 1] = " ")
                        /\ (i = Len(text) \/ text[i + 1] = " ")
            standalone == \E i \in 1..Len(text) : IsIt(i) /\ Alone(i)
            inside == /\ \E i \in 1..Len(text) : IsIt(i)
                      /\ \A i \in 1..Len(text) : IsIt(i) => ~Alone(i)
        IN  /\ standalone =>
                /\ "confidential" \in DOMAIN result
                /\ \E j \in 1..Len(result["confidential"]) :
                        result["confidential"][j] = "confidential"
            /\ inside => "confidential" \notin DOMAIN result

\* C11: every keyword of the keyword table and every pattern label is
\* assigned to exactly one of the categories pii, financial, legal and
\* confidential, so that one match adds evidence to one category only: every
\* evidence token of a result is in the evidence of exactly one category.
C11_OneCategoryPerEntry ==
    scanned # None =>
        LET result == scanned[1]
            Holds(c, token) ==
                /\ c \in DOMAIN result
                /\ \E j \in 1..Len(result[c]) : result[c][j] = token
            tokens == UNION {{result[c][j] : j \in 1..Len(result[c])} : c \in DOMAIN result}
        IN  \A token \in tokens :
                Cardinality({c \in Categories : Holds(c, token)}) = 1

\* C12: the mapping scan_text returns has no category with an empty evidence
\* list: a category is a key of the result if and only if one of its
\* keywords or one of its patterns matched; for the empty text and for a
\* text with no match the result is the empty mapping, and the call returns.
C12_NoEmptyEvidence ==
    scanned # None =>
        LET result == scanned[1]
            lowered == LowerText(text)
            Matched(c) ==
                \/ \E k \in 1..Len(sensitive_keywords[c]) :
                        KeywordFound(sensitive_keywords[c][k], lowered)
                \/ \E l \in 1..Len(PatternLabels) :
                        /\ PatternFound(PatternLabels[l], text)
                        /\ PatternCategory(PatternLabels[l]) = c
        IN  /\ DOMAIN result \subseteq {"pii", "financial", "legal", "confidential"}
            /\ \A c \in DOMAIN result : Len(result[c]) > 0
            /\ \A c \in {"pii", "financial", "legal", "confidential"} :
                    c \in DOMAIN result <=> Matched(c)
            /\ (text = << >> \/ \A c \in {"pii", "financial", "legal", "confidential"} :
                                    ~Matched(c))
                    => DOMAIN result = {}

\* C12 witness: a text that matches in the financial tables only: the
\* result has the key financial and no other.
C12_Witness ==
    /\ scanned # None
    /\ text = <<"UN", " ", "invoice">>
    /\ DOMAIN scanned[1] = {"financial"}
    /\ scanned[1]["financial"] = <<"invoice">>

----------------------------------------------------------------------------
(* Properties of the text extractor *)

\* C14: extract_text_from_file never raises: for every format tag the result
\* is the empty string when the tag has no handler or its handler fails, and
\* the text produced by the handler the tag selects otherwise.
C14_ExtractNeverRaises ==
    extracted # None =>
        LET out == extracted[1]
            handler ==
                [docx |-> "Document", pptx |-> "Presentation",
                 xlsx |-> "load_workbook", xls |-> "load_workbook",
                 pdf |-> "extract_text_to_fp", jpg |-> "image_to_string",
                 jpeg |-> "image_to_string", png |-> "image_to_string",
                 webp |-> "image_to_string", txt |-> "decode"]
        IN  /\ out # <<"raise">>
            /\ file_type \notin DOMAIN handler => out = << >>
            /\ file_type \in DOMAIN handler =>
                    IF stream[handler[file_type]] = <<"raise">>
                    THEN out = << >>
                    ELSE out = stream[handler[file_type]]

\* C14 witness: the PDF handler fails on the stream, every other handler
\* would have produced a text, and the call returned the empty string.
C14_Witness ==
    /\ extracted = Some(<< >>)
    /\ file_type = "pdf"
    /\ stream["extract_text_to_fp"] = <<"raise">>
    /\ \A h \in DOMAIN stream \ {"extract_text_to_fp"} : stream[h] = <<"invoice">>

----------------------------------------------------------------------------
(* Properties of scan_files *)

\* C1: in every report scan_files returns, a file record has a risk score
\* (riskLevel) and a risk label (riskLevelLabel) if and only if its
\* sensitiveCategories is not empty; a record with no sensitive category
\* keeps both risk fields null.
C1_RiskIffSensitive ==
    ReturnedReport # None =>
        LET files == ReturnedReport[1].files
        IN  \A i \in 1..Len(files) :
                /\ files[i].sensitiveCategories # << >> =>
                        (files[i].riskLevel # << >> /\ files[i].riskLevelLabel # "None")
                /\ files[i].sensitiveCategories = << >> =>
                        (files[i].riskLevel = << >> /\ files[i].riskLevelLabel = "None")

\* C1 witness: a returned report with a scored sensitive record and a
\* record that has no sensitive category.
C1_Witness ==
    /\ ReturnedReport # None
    /\ \E i, j \in 1..Len(results.files) :
            /\ results.files[i].sensitiveCategories # << >>
            /\ results.files[i].riskLevel # << >>
            /\ results.files[j].sensitiveCategories = << >>

\* C2: an exception raised while handling one file entry (reading its
\* metadata, fetching its content, classifying it or scoring it) never aborts
\* scan_files: only a failure of the listing step is raised to the caller
\* (a cancellation is not an error of a file entry), and a returned report
\* is one for which every entry of the listing was processed.
C2_FileErrorNeverAborts ==
    /\ error \in {"none", "ValueError: Not authenticated", "list_directory failed",
                  "CancelledError"}
    /\ (ReturnedReport # None /\ source = "gdrive") => Len(attempted) = total

\* C3: when fetching the content of a text-bearing file raises, the id of the
\* file is recorded in failed_files (the name is accepted too) and the file
\* is absent from files and from the by_file_type, by_age_group and
\* by_department counters; a file whose fetch yields the empty text stays in
\* files with no sensitive category and is not in failed_files.
C3_FetchFailureRecorded ==
    [][ (pc = "fetch" /\ pc' = "loop") =>
            LET f == file[1]
                files == results'.files
                failed == SeqToSet(results'.failed_files)
                others == Cardinality({i \in 1..Len(files) : files[i].id # f.id})
                Sum(d) == LET RECURSIVE S(_)
                              S(K) == IF K = {} THEN 0
                                      ELSE LET k == CHOOSE x \in K : TRUE
                                           IN  d[k] + S(K \ {k})
                          IN  S(DOMAIN d)
            IN  /\ f.content = Raises =>
                    /\ (f.id \in failed \/ f.name \in failed)
                    /\ \A i \in 1..Len(files) : files[i].id # f.id
                    /\ Sum(results'.stats.by_file_type) = others
                    /\ Sum(results'.stats.by_age_group) = others
                    /\ Sum(results'.stats.by_department) = others
                /\ f.content = << >> =>
                    /\ \E i \in 1..Len(files) :
                            files[i].id = f.id /\ files[i].sensitiveCategories = << >>
                    /\ f.id \notin failed
                    /\ f.name \notin failed
      ]_vars

\* C4: after the gdrive loop has worked through a listing, every entry is
\* accounted for exactly once: the records of files are, in order, the
\* entries the loop put in files, the entries of failed_files are, in order,
\* the entries the loop gave up on (by id or by name), and so failed_files
\* names no entry that was processed successfully.
C4_EveryEntryOnce ==
    (ReturnedReport # None /\ source = "gdrive") =>
        LET ok == SelectSeq(attempted, LAMBDA a : a.where = "files")
            bad == SelectSeq(attempted, LAMBDA a : a.where = "failed_files")
        IN  /\ Len(attempted) = total
            /\ Len(results.files) = Len(ok)
            /\ \A i \in 1..Len(ok) : results.files[i].id = ok[i].file.id
            /\ Len(results.failed_files) = Len(bad)
            /\ \A i \in 1..Len(bad) :
                    results.failed_files[i] \in {bad[i].file.id, bad[i].file.name}

\* C5: if scan_files is cancelled after 2 of 5 files have been processed,
\* the caller receives a report with scan_complete = false and exactly 2
\* records in files, and none of the 3 remaining files is in files or in
\* failed_files.
C5_PartialReportOnCancel ==
    (pc = "cancelled" /\ total = 5 /\ results.processed_files = 2) =>
        /\ ReturnedReport # None
        /\ ~ReturnedReport[1].scan_complete
        /\ Len(ReturnedReport[1].files) = 2
        /\ \A i \in 3..5 :
                /\ \A j \in 1..Len(ReturnedReport[1].files) :
                        ReturnedReport[1].files[j].id # PartialListing[i].id
                /\ PartialListing[i].name \notin SeqToSet(ReturnedReport[1].failed_files)

C16_TotalSensitiveDistinctIds ==
    ReturnedReport # None =>
        LET report == ReturnedReport[1]
            sensitive == {report.files[i].id :
                            i \in {j \in 1..Len(report.files) :
                                      report.files[j].sensitiveCategories # << >>}}
        IN  /\ "total_sensitive" \in DOMAIN report.stats
            /\ report.stats.total_sensitive = Cardinality(sensitive)

\* C16 witness: the listing named the same file twice, both times with a
\* financial content, and the report counts one sensitive file.
C16_Witness ==
    /\ ReturnedReport # None
    /\ Len(results.files) = 2
    /\ results.files[1].id = results.files[2].id
    /\ results.stats.by_sensitivity["financial"] = 2
    /\ results.stats.total_sensitive = 1

\* C17: a report scan_files returns after it has worked through the whole
\* collection has scan_complete = true, whatever the source; scan_complete
\* is false only in the report of a scan that did not finish.
C17_CompleteWhenFinished ==
    ReturnedReport # None => ReturnedReport[1].scan_complete

\* C18: the by_risk_level counters stay at zero during the per-file
\* classification pass; they change only in the scoring pass that follows
\* the last entry, when the findings of every record are final, and a
\* returned gdrive report counts each record with sensitive categories
\* exactly once, under its label.
C18_RiskCountedInScoringPass ==
    [][ LET counts == results.stats.by_risk_level
            counts2 == results'.stats.by_risk_level
            files2 == results'.files
        IN  /\ pc' \in {"loop", "fetch", "cancelled"} =>
                    \A l \in {"high", "medium", "low"} : counts2[l] = 0
            /\ counts2 # counts =>
                    /\ pc = "loop"
                    /\ idx = total
                    /\ Len(attempted) = total
                    /\ Len(files2) = Len(results.files)
                    /\ \A i \in 1..Len(files2) :
                            files2[i].sensitiveCategories
                                = results.files[i].sensitiveCategories
            /\ (pc = "loop" /\ pc' = "done" /\ source = "gdrive") =>
                    \A l \in {"high", "medium", "low"} :
                        counts2[l] = Cardinality(
                            {i \in 1..Len(files2) :
                                /\ files2[i].sensitiveCategories # << >>
                                /\ files2[i].riskLevelLabel = l})
      ]_vars

\* C18 witness: a returned report of two sensitive files, one of medium and
\* one of high risk, each counted once.
C18_Witness ==
    /\ ReturnedReport # None
    /\ Len(results.files) = 2
    /\ results.files[1].riskLevelLabel = "medium"
    /\ results.files[2].riskLevelLabel = "high"
    /\ results.stats.by_risk_level = [high |-> 1, medium |-> 1, low |-> 0]

\* C19: the ageGroup of every record is computed from its modifiedTime
\* against the time at which its scan started (one timestamp for the whole
\* batch, and not an earlier moment): at most 365 days is lessThanOneYear,
\* at most 1095 days oneToThreeYears, more is moreThanThreeYears.
C19_AgeAgainstScanStart ==
    \A i \in 1..Len(results.files) :
        LET age_days == scan_started[1] - results.files[i].modifiedTime.day
        IN  results.files[i].ageGroup =
                IF age_days <= 365 THEN "lessThanOneYear"
                ELSE IF age_days <= 1095 THEN "oneToThreeYears"
                ELSE "moreThanThreeYears"

\* C20: in a returned report, a record with sensitive categories has as
\* sensitivityReason the one of them with the highest content weight
\* (confidential over pii over financial over legal), and a record with no
\* sensitive category has no sensitivityReason.
C20_ReasonIsHighestWeight ==
    ReturnedReport # None =>
        \A i \in 1..Len(ReturnedReport[1].files) :
            LET r == ReturnedReport[1].files[i]
                cats == {r.sensitiveCategories[j] : j \in 1..Len(r.sensitiveCategories)}
            IN  IF cats = {}
                THEN "sensitivityReason" \notin DOMAIN r
                ELSE /\ "sensitivityReason" \in DOMAIN r
                     /\ r.sensitivityReason =
                            IF "confidential" \in cats THEN "confidential"
                            ELSE IF "pii" \in cats THEN "pii"
                            ELSE IF "financial" \in cats THEN "financial"
                            ELSE "legal"

\* C20 witness: a returned report with a record that is financial and
\* confidential, whose reason is confidential, and a record with no
\* sensitive category.
C20_Witness ==
    /\ ReturnedReport # None
    /\ \E i, j \in 1..Len(results.files) :
            /\ results.files[i].sensitiveCategories = <<"financial", "confidential">>
            /\ results.files[i].sensitivityReason = "confidential"
            /\ results.files[j].sensitiveCategories = << >>

\* C21: in every report of a completed scan, total_documents, the number of
\* records in files and the sums of the by_file_type, by_age_group and
\* by_department counts are all equal, and every record is counted under
\* exactly one fileType, one ageGroup and one department.
C21_CountsAgree ==
    ReturnedReport # None =>
        LET report == ReturnedReport[1]
            n == Len(report.files)
            Sum(d) == LET RECURSIVE S(_)
                          S(K) == IF K = {} THEN 0
                                  ELSE LET k == CHOOSE x \in K : TRUE
                                       IN  d[k] + S(K \ {k})
                      IN  S(DOMAIN d)
            Records(key, value) == {i \in 1..n : report.files[i][key] = value}
        IN  /\ report.stats.total_documents = n
            /\ Sum(report.stats.by_file_type) = n
            /\ Sum(report.stats.by_age_group) = n
            /\ Sum(report.stats.by_department) = n
            /\ \A k \in DOMAIN report.stats.by_file_type :
                    report.stats.by_file_type[k] = Cardinality(Records("fileType", k))
            /\ \A k \in DOMAIN report.stats.by_age_group :
                    report.stats.by_age_group[k] = Cardinality(Records("ageGroup", k))
            /\ \A k \in DOMAIN report.stats.by_department :
                    report.stats.by_department[k] = Cardinality(Records("department", k))
            /\ \A i \in 1..n :
                    /\ report.files[i].fileType \in DOMAIN report.stats.by_file_type
                    /\ report.files[i].ageGroup \in DOMAIN report.stats.by_age_group
                    /\ report.files[i].department \in DOMAIN report.stats.by_department

\* C21 witness: a returned report of two records of the same department.
C21_Witness ==
    /\ ReturnedReport # None
    /\ Len(results.files) = 2
    /\ results.files[1].department = "R&D"
    /\ results.files[2].department = "R&D"
    /\ results.stats.by_department["R&D"] = 2
    /\ results.stats.total_documents = 2

\* C26: every record scan_files scores has a risk score of at least 0.5
\* (the last-accessed time is never available, so the access weight is
\* always 0.3); no record is labelled low and by_risk_level['low'] is 0 in
\* every report.
C26_NeverLowRisk ==
    ReturnedReport # None =>
        /\ \A i \in 1..Len(ReturnedReport[1].files) :
                LET r == ReturnedReport[1].files[i]
                IN  /\ r.riskLevel # << >> => r.riskLevel[1] >= 50
                    /\ r.riskLevelLabel # "low"
        /\ ReturnedReport[1].stats.by_risk_level["low"] = 0

\* C26 witness: a returned report with a record that is financial only and
\* under a year old: 0.2 + 0.1 + 0.3 = 0.6, medium.
C26_Witness ==
    /\ ReturnedReport # None
    /\ \E i \in 1..Len(results.files) :
            /\ results.files[i].sensitiveCategories = <<"financial">>
            /\ results.files[i].riskLevel = <<60>>
            /\ results.files[i].riskLevelLabel = "medium"

\* C27: the age bucket and the age weight of a file agree at every age in
\* days: for a record whose createdTime is its modifiedTime, scored at the
\* time its age group was computed, lessThanOneYear goes with the age weight
\* 0.1, oneToThreeYears with 0.2 and moreThanThreeYears with 0.3, so that
\* its score is min(content + age weight + 0.3, 1.0).
C27_BucketMatchesWeight ==
    (ReturnedReport # None /\ clock = now) =>
        \A i \in 1..Len(ReturnedReport[1].files) :
            LET r == ReturnedReport[1].files[i]
                cats == {r.sensitiveCategories[j] : j \in 1..Len(r.sensitiveCategories)}
                content == (IF "confidential" \in cats THEN 40 ELSE 0)
                         + (IF "pii" \in cats THEN 30 ELSE 0)
                         + (IF "financial" \in cats THEN 20 ELSE 0)
                         + (IF "legal" \in cats THEN 10 ELSE 0)
                weight == CASE r.ageGroup = "lessThanOneYear" -> 10
                            [] r.ageGroup = "oneToThreeYears" -> 20
                            [] r.ageGroup = "moreThanThreeYears" -> 30
                sum == content + weight + 30
            IN  (cats # {} /\ r.createdTime = r.modifiedTime) =>
                    r.riskLevel = <<IF sum <= 100 THEN sum ELSE 100>>

\* C28: for every category c, by_sensitivity[c] is the number of records of
\* files whose sensitiveCategories contains c, after any listing, also one
\* in which a file id occurs more than once.
C28_SensitivityCountsRecords ==
    \A c \in DOMAIN results.stats.by_sensitivity :
        results.stats.by_sensitivity[c] =
            Cardinality({i \in 1..Len(results.files) :
                            \E j \in 1..Len(results.files[i].sensitiveCategories) :
                                results.files[i].sensitiveCategories[j] = c})

----------------------------------------------------------------------------
(* Properties of ScanCacheService *)

\* C23: get_cached_result(target) returns stored data only while at most 60
\* minutes have passed since the last update_cache(target): the data it
\* returns was stored for that target at most 60 minutes before the call,
\* it returns None when the target was never updated or was last updated more
\* than 60 minutes ago, and it does return the data of a directory that was
\* updated at most 60 minutes ago and not invalidated since.
C23_NoDataOlderThanTtl ==
    cache_response.op = "get" =>
        LET target_id == cache_response.target_id
            updated == last_update[target_id]
        IN  /\ cache_response.data # None =>
                /\ cache_response.data[1].target = target_id
                /\ cache_response.at - cache_response.data[1].scanned_at <= 60
                /\ updated # None
                /\ cache_response.at - updated[1] <= 60
            /\ (/\ target_id \in Directories \ invalidated
                 /\ updated # None
                 /\ cache_response.at - updated[1] <= 60)
                => cache_response.data = Some(CacheData(target_id, updated[1]))

\* Data is returned exactly 60 minutes after it was stored.
C23_Witness ==
    /\ cache_response.op = "get"
    /\ cache_response.at = 60
    /\ cache_response.data = Some(CacheData("drive", 0))

\* C29: after invalidate_cache(d) for a directory d, through any service,
\* get_cached_result(d) returns None for every service until the next
\* update_cache(d).
C29_NothingServedAfterInvalidation ==
    (cache_response.op = "get" /\ cache_response.target_id \in invalidated)
        => cache_response.data = None

----------------------------------------------------------------------------
(* Properties of the endpoints *)

\* The reports the caches hold.
CachedReports ==
    {directory_cache[d].data[1] : d \in DOMAIN directory_cache}
    \cup {global_cache.directories[d].data[1] : d \in DOMAIN global_cache.directories}
    \cup (IF global_cache.drive.data = None THEN {} ELSE {global_cache.drive.data[1]})
    \cup {user_drive_cache[u].data[1] :
              u \in {v \in DOMAIN user_drive_cache : user_drive_cache[v].data # None}}

\* C22: the drive-wide scan cache is per user: a drive files listing or a
\* read of the drive cache answers a user only with files of a scan made
\* for that user's own request, never with the result stored after another
\* user's request.
C22_DriveCachePerUser ==
    (/\ api_response.endpoint \in {"list_files", "debug_cache"}
     /\ api_response.endpoint = "debug_cache" => api_response.target_id = "drive")
        => SeqToSet(api_response.files)
               \subseteq SeqToSet(FileIds(ScanReportOf(DriveListingOf(api_response.user))))

\* C25: set_file_department answers 404 when the file id is in no cached
\* scan result, and success only when the file was found and its department
\* updated.
C25_NotFoundIs404 ==
    api_response.endpoint = "set_file_department" =>
        /\ ~api_response.in_cache => api_response.status = 404
        /\ api_response.status = 200 =>
               /\ api_response.in_cache
               /\ \E report \in CachedReports :
                      \E i \in 1..Len(report.files) :
                          /\ report.files[i].id = api_response.file_id
                          /\ report.files[i].department = api_response.department

\* C30: after any sequence of department reassignments, each by_department
\* count of a cached report equals the number of files of the report with
\* that department, and the counts sum to the number of files.
C30_DepartmentCountsMatchFiles ==
    \A report \in CachedReports :
        LET counts == report.stats.by_department
            carrying(k) == Cardinality({i \in 1..Len(report.files) :
                                           report.files[i].department = k})
        IN  /\ \A i \in 1..Len(report.files) :
                   report.files[i].department \in DOMAIN counts
            /\ \A k \in DOMAIN counts : counts[k] = carrying(k)

----------------------------------------------------------------------------
(* Properties of the Slack scan command *)

\* C24: when the 2.5-second wait of the scan command times out, the scan
\* task keeps running in the background and caches its result when it
\* completes: a user who was answered that the scan goes on in the
\* background has a scan task that is running or has completed.
C24_ScanContinuesAfterTimeout ==
    \A user \in Users :
        slack_answer[user] = "background" => scan_task[user] \in {"running", "done"}

====
